---- MODULE Spec2Model ----
(***************************************************************************)
(* A model of the Solana gRPC listener (src/src/main.rs).                  *)
(*                                                                         *)
(* The program has two logical units:                                      *)
(*   - the main flow: connect, open the duplex stream, send the one        *)
(*     SubscribeRequest, spawn the heartbeat, then loop on                 *)
(*     receiver.message() and log every entry of every group of a frame;   *)
(*   - the heartbeat task: loop { tick; build a ping; send; break on Err }.*)
(* The transport (connect / send / message) is external: each call either  *)
(* succeeds or fails, nondeterministically.  Time is a clock `now`, the     *)
(* seconds elapsed since ping_interval was created (nothing reads a clock  *)
(* before that); it advances by Quantum and stands for both the monotonic  *)
(* clock of tokio's interval and the wall clock read for the ping id (a    *)
(* forward-moving wall clock, ids being counted from the creation time).   *)
(*                                                                         *)
(* Option<T> is a sequence of length 0 (None) or 1 (Some(v)).              *)
(***************************************************************************)
EXTENDS Integers, Sequences, FiniteSets, TLC

\* ------------------------------------------------------------ constants

\* const PING_INTERVAL_SECS: u64 = 30
PING_INTERVAL_SECS == 30

\* The clock advances in steps of half a heartbeat period.
Quantum == PING_INTERVAL_SECS \div 2

\* The clock stops advancing at MaxTime.
MaxTime == 120

\* The inbound stream delivers at most MaxFrames frames in a session.
MaxFrames == 2

\* A group of a frame holds at most MaxEntries entries.
MaxEntries == 2

\* enum CommitmentLevel, cast with `as i32`
CommitmentLevel == [Processed |-> 0, Confirmed |-> 1, Finalized |-> 2]

\* The account address of the account filter
USDC == "9wFFyRfZBsuAha4YcuxcXLKwMxJR43S7fPfQLusDBzvT"

None == << >>
Some(v) == << v >>

\* ------------------------------------------------------------ messages

\* SubscribeRequest { ..Default::default() }
DefaultRequest ==
    [accounts |-> None, transactions |-> None, slots |-> None,
     commitment |-> 0, ping |-> None]

\* let subscribe_request = SubscribeRequest { accounts, transactions, slots, commitment, .. }
\* (fault variant: the slots toggle is left out)
subscribe_request_no_slots ==
    [accounts     |-> Some([filters |-> << [account |-> << USDC >>, owner |-> << >>] >>]),
     transactions |-> Some([filters |-> << [vote |-> Some(FALSE), failed |-> Some(FALSE)] >>]),
     slots        |-> None,
     commitment   |-> CommitmentLevel.Confirmed,
     ping         |-> None]

subscribe_request ==
    [accounts     |-> Some([filters |-> << [account |-> << USDC >>, owner |-> << >>] >>]),
     transactions |-> Some([filters |-> << [vote |-> Some(FALSE), failed |-> Some(FALSE)] >>]),
     slots        |-> Some("unit"),
     commitment   |-> CommitmentLevel.Confirmed,
     ping         |-> None]

\* let ping_request = SubscribeRequest { ping: Some(Ping { id }), ..Default::default() }
\* (fault variant: the ping is built from the subscription instead of Default)
ping_request_with_filters(id) ==
    [subscribe_request EXCEPT !.ping = Some([id |-> id])]

ping_request(id) ==
    [DefaultRequest EXCEPT !.ping = Some([id |-> id])]

\* A request restates filters when any of its filter sections is present.
CarriesFilters(req) ==
    req.accounts # None \/ req.transactions # None \/ req.slots # None

IsPing(req) == req.ping # None

\* ------------------------------------------------------------ inbound frames

\* The entries a group can hold (each stands for the fields the loop logs) and
\* the ids a pong can echo.
Entries == { "e1", "e2" }
PongIds == { 0, PING_INTERVAL_SECS }

\* Sequences over S of length 0..n
RECURSIVE SeqsUpTo(_, _)
SeqsUpTo(S, n) ==
    IF n = 0 THEN { << >> }
    ELSE LET shorter == SeqsUpTo(S, n - 1)
         IN  shorter \cup { Append(s, e) : s \in shorter, e \in S }

\* One optional group with its inner collection: None or Some(Vec<entry>)
Groups == { None } \cup { Some(s) : s \in SeqsUpTo(Entries, MaxEntries) }

\* Every frame the server can deliver within the bounds: four independent
\* optional groups.
Frames ==
    [accounts : Groups, transactions : Groups, slots : Groups,
     pong : { None } \cup { Some([id |-> i]) : i \in PongIds }]

\* The frames delivered in a whole session: no group, an account update with a
\* slot update, and all four groups.
Frame(a, t, s, p) == [accounts |-> a, transactions |-> t, slots |-> s, pong |-> p]
SessionFrames ==
    { Frame(None, None, None, None),
      Frame(Some(<< "e1", "e2" >>), None, Some(<< "e2" >>), None),
      Frame(Some(<< "e2" >>), Some(<< "e1", "e2" >>), Some(<< "e1" >>),
            Some([id |-> PING_INTERVAL_SECS])) }

\* ------------------------------------------------------------ dispatch

\* for x in group.collection { info!(...) }: one observation per entry, in order
\* (fault variant: the collection is walked backwards)
GroupObs_reversed(kind, group, k) ==
    IF group = None THEN << >>
    ELSE [i \in 1..Len(group[1]) |->
            [frame |-> k, kind |-> kind, val |-> group[1][Len(group[1]) + 1 - i]]]

GroupObs(kind, group, k) ==
    IF group = None THEN << >>
    ELSE [i \in 1..Len(group[1]) |-> [frame |-> k, kind |-> kind, val |-> group[1][i]]]

\* if let Some(pong) = msg.pong { info!(.., pong.id) }
PongObs(pong, k) ==
    IF pong = None THEN << >>
    ELSE << [frame |-> k, kind |-> "pong", val |-> pong[1].id] >>

\* The body of the while-let loop: four independent `if let Some(..)` blocks.
\* (fault variant: an else-if chain, only the first present group is handled)
Dispatch_first_match(m, k) ==
    IF m.accounts # None THEN GroupObs("account", m.accounts, k)
    ELSE IF m.transactions # None THEN GroupObs("transaction", m.transactions, k)
    ELSE IF m.slots # None THEN GroupObs("slot", m.slots, k)
    ELSE PongObs(m.pong, k)

\* (fault variant: the pong is handled before the other groups)
Dispatch_pong_first(m, k) ==
    PongObs(m.pong, k)
      \o GroupObs("account", m.accounts, k)
      \o GroupObs("transaction", m.transactions, k)
      \o GroupObs("slot", m.slots, k)

Dispatch(m, k) ==
    GroupObs("account", m.accounts, k)
      \o GroupObs("transaction", m.transactions, k)
      \o GroupObs("slot", m.slots, k)
      \o PongObs(m.pong, k)

\* ------------------------------------------------------------ state

VARIABLES
    mainPc,        \* position of main: connect, subscribe, send, spawn, receiving, returning, exited
    result,        \* what main returns: none (still running), ok, or the failed phase
    stream,        \* what receiver.message() has said last: open, ended, failed
    msg,           \* Option: the frame bound by the while-let
    framesConsumed,\* number of frames receive() has returned
    observations,  \* the log lines emitted by the dispatch loop, in order
    outbound,      \* the messages sent successfully on the outbound sink, in order
    hbPc,          \* heartbeat task: unspawned, tick, send, stopped, dropped
    nextTick,      \* deadline of ping_interval's next tick
    pending,       \* Option: the ping_request being sent
    pingsTried,    \* number of heartbeat send calls
    warned,        \* Option: the heartbeat's warn! line, as the number of frames logged before it
    now            \* the clock, in seconds

vars == << mainPc, result, stream, msg, framesConsumed, observations, outbound,
           hbPc, nextTick, pending, pingsTried, warned, now >>

mainVars == << mainPc, result, stream, msg, framesConsumed, observations >>
hbVars == << hbPc, nextTick, pending, pingsTried, warned >>

Init ==
    /\ mainPc = "connect"
    /\ result = "none"
    /\ stream = "open"
    /\ msg = None
    /\ framesConsumed = 0
    /\ observations = << >>
    /\ outbound = << >>
    /\ hbPc = "unspawned"
    /\ nextTick = 0
    /\ pending = None
    /\ pingsTried = 0
    /\ warned = None
    /\ now = 0

\* ------------------------------------------------------------ main flow

\* GeyserGrpcClient::connect(GRPC_ENDPOINT).await.context(..)?
ConnectOk ==
    /\ mainPc = "connect"
    /\ mainPc' = "subscribe"
    /\ UNCHANGED << result, stream, msg, framesConsumed, observations, outbound, now >>
    /\ UNCHANGED hbVars

ConnectFail ==
    /\ mainPc = "connect"
    /\ mainPc' = "returning"
    /\ result' = "connect"
    /\ UNCHANGED << stream, msg, framesConsumed, observations, outbound, now >>
    /\ UNCHANGED hbVars

\* client.subscribe().await.context(..)?
\* (fault variant: the heartbeat is spawned before the subscription is sent)
SubscribeOk_heartbeat_first ==
    /\ mainPc = "subscribe"
    /\ mainPc' = "send"
    /\ hbPc' = "tick"
    /\ nextTick' = now
    /\ UNCHANGED << result, stream, msg, framesConsumed, observations, outbound,
                    pending, pingsTried, warned, now >>

SubscribeOk ==
    /\ mainPc = "subscribe"
    /\ mainPc' = "send"
    /\ UNCHANGED << result, stream, msg, framesConsumed, observations, outbound, now >>
    /\ UNCHANGED hbVars

SubscribeFail ==
    /\ mainPc = "subscribe"
    /\ mainPc' = "returning"
    /\ result' = "subscribe"
    /\ UNCHANGED << stream, msg, framesConsumed, observations, outbound, now >>
    /\ UNCHANGED hbVars

\* sender.send(subscribe_request).await.context(..)?
SendSubscriptionOk ==
    /\ mainPc = "send"
    /\ outbound' = Append(outbound, subscribe_request)
    /\ mainPc' = "spawn"
    /\ UNCHANGED << result, stream, msg, framesConsumed, observations, now >>
    /\ UNCHANGED hbVars

\* (fault variant: the send error is dropped and main carries on)
SendSubscriptionFail_ignored ==
    /\ mainPc = "send"
    /\ mainPc' = "spawn"
    /\ UNCHANGED << result, stream, msg, framesConsumed, observations, outbound, now >>
    /\ UNCHANGED hbVars

\* (fault variant: the failure is recorded but main goes on to spawn the heartbeat)
SendSubscriptionFail_spawns ==
    /\ mainPc = "send"
    /\ mainPc' = "spawn"
    /\ result' = "send"
    /\ UNCHANGED << stream, msg, framesConsumed, observations, outbound, now >>
    /\ UNCHANGED hbVars

SendSubscriptionFail ==
    /\ mainPc = "send"
    /\ mainPc' = "returning"
    /\ result' = "send"
    /\ UNCHANGED << stream, msg, framesConsumed, observations, outbound, now >>
    /\ UNCHANGED hbVars

\* let mut ping_interval = interval(..); tokio::spawn(async move { loop { .. } })
\* The first tick of an interval completes immediately: its deadline is the
\* time the interval is created.
\* (fault variant: the first tick comes one period after creation)
SpawnHeartbeat_delayed_first_tick ==
    /\ mainPc = "spawn"
    /\ mainPc' = "receiving"
    /\ hbPc' = "tick"
    /\ nextTick' = now + PING_INTERVAL_SECS
    /\ UNCHANGED << result, stream, msg, framesConsumed, observations, outbound,
                    pending, pingsTried, warned, now >>

SpawnHeartbeat ==
    /\ mainPc = "spawn"
    /\ mainPc' = "receiving"
    /\ hbPc' = "tick"
    /\ nextTick' = now
    /\ UNCHANGED << result, stream, msg, framesConsumed, observations, outbound,
                    pending, pingsTried, warned, now >>

\* while let Some(msg) = receiver.message().await.context(..)? { body }
\* (fault variants: a frame with no group ends the loop like the end of the
\* stream; a pong is answered with a ping on the outbound sink)
ReceiveFrame_empty_ends(f) ==
    /\ mainPc = "receiving"
    /\ msg' = Some(f)
    /\ framesConsumed' = framesConsumed + 1
    /\ observations' = observations \o Dispatch(f, framesConsumed + 1)
    /\ IF Dispatch(f, framesConsumed + 1) = << >>
       THEN mainPc' = "returning" /\ result' = "ok"
       ELSE UNCHANGED << mainPc, result >>
    /\ UNCHANGED << stream, outbound, now >>
    /\ UNCHANGED hbVars

ReceiveFrame_pong_answered(f) ==
    /\ mainPc = "receiving"
    /\ msg' = Some(f)
    /\ framesConsumed' = framesConsumed + 1
    /\ observations' = observations \o Dispatch(f, framesConsumed + 1)
    /\ outbound' = IF f.pong = None THEN outbound
                   ELSE Append(outbound, ping_request(f.pong[1].id))
    /\ UNCHANGED << mainPc, result, stream, now >>
    /\ UNCHANGED hbVars

ReceiveFrame(f) ==
    /\ mainPc = "receiving"
    /\ msg' = Some(f)
    /\ framesConsumed' = framesConsumed + 1
    /\ observations' = observations \o Dispatch(f, framesConsumed + 1)
    /\ UNCHANGED << mainPc, result, stream, outbound, now >>
    /\ UNCHANGED hbVars

\* message() returns Ok(None): the loop ends, info!("结束"), Ok(())
ReceiveNone ==
    /\ mainPc = "receiving"
    /\ stream' = "ended"
    /\ mainPc' = "returning"
    /\ result' = "ok"
    /\ UNCHANGED << msg, framesConsumed, observations, outbound, now >>
    /\ UNCHANGED hbVars

\* message() returns Err: `?` returns the error with the receive context
\* (fault variant: the error is dropped and the loop goes on)
ReceiveErr_ignored ==
    /\ mainPc = "receiving"
    /\ stream' = "failed"
    /\ UNCHANGED << mainPc, result, msg, framesConsumed, observations, outbound, now >>
    /\ UNCHANGED hbVars

ReceiveErr ==
    /\ mainPc = "receiving"
    /\ stream' = "failed"
    /\ mainPc' = "returning"
    /\ result' = "receive"
    /\ UNCHANGED << msg, framesConsumed, observations, outbound, now >>
    /\ UNCHANGED hbVars

\* #[tokio::main]: main's future has returned; the runtime shuts down, which
\* drops the heartbeat task at its await point, and the process exits.
\* (fault variant: the heartbeat task outlives main)
ProcessExit_heartbeat_survives ==
    /\ mainPc = "returning"
    /\ mainPc' = "exited"
    /\ UNCHANGED << result, stream, msg, framesConsumed, observations, outbound, now >>
    /\ UNCHANGED hbVars

ProcessExit ==
    /\ mainPc = "returning"
    /\ mainPc' = "exited"
    /\ hbPc' = IF hbPc \in { "tick", "send" } THEN "dropped" ELSE hbPc
    /\ pending' = None
    /\ UNCHANGED << result, stream, msg, framesConsumed, observations, outbound,
                    nextTick, pingsTried, warned, now >>

\* ------------------------------------------------------------ heartbeat task

\* ping_interval.tick().await completes once the deadline has passed; the next
\* deadline is one period after this one.  Then the ping is built with
\* id = SystemTime::now() in Unix seconds and sender_clone.send(..) is called.
\* (fault variants: the tick is not taken while main is suspended in
\* message(); the id is the tick's deadline, not the clock reading)
HbTick_waits_for_main ==
    /\ hbPc = "tick"
    /\ mainPc # "receiving"
    /\ now >= nextTick
    /\ nextTick' = nextTick + PING_INTERVAL_SECS
    /\ pending' = Some(ping_request(now))
    /\ pingsTried' = pingsTried + 1
    /\ hbPc' = "send"
    /\ UNCHANGED << warned, outbound, now >>
    /\ UNCHANGED mainVars

HbTick_deadline_id ==
    /\ hbPc = "tick"
    /\ now >= nextTick
    /\ nextTick' = nextTick + PING_INTERVAL_SECS
    /\ pending' = Some(ping_request(nextTick))
    /\ pingsTried' = pingsTried + 1
    /\ hbPc' = "send"
    /\ UNCHANGED << warned, outbound, now >>
    /\ UNCHANGED mainVars

HbTick ==
    /\ hbPc = "tick"
    /\ now >= nextTick
    /\ nextTick' = nextTick + PING_INTERVAL_SECS
    /\ pending' = Some(ping_request(now))
    /\ pingsTried' = pingsTried + 1
    /\ hbPc' = "send"
    /\ UNCHANGED << warned, outbound, now >>
    /\ UNCHANGED mainVars

\* send returned Ok: info!(..) and loop
HbSendOk ==
    /\ hbPc = "send"
    /\ outbound' = Append(outbound, pending[1])
    /\ pending' = None
    /\ hbPc' = "tick"
    /\ UNCHANGED << nextTick, pingsTried, warned, now >>
    /\ UNCHANGED mainVars

\* if let Err(e) = send(..).await { warn!(..); break; }
\* (fault variants: the loop goes on after the error; the error ends main)
HbSendFail_retry ==
    /\ hbPc = "send"
    /\ pending' = None
    /\ warned' = Some(framesConsumed)
    /\ hbPc' = "tick"
    /\ UNCHANGED << nextTick, pingsTried, outbound, now >>
    /\ UNCHANGED mainVars

HbSendFail_fatal ==
    /\ hbPc = "send"
    /\ pending' = None
    /\ warned' = Some(framesConsumed)
    /\ hbPc' = "stopped"
    /\ mainPc' = "returning"
    /\ result' = "heartbeat"
    /\ UNCHANGED << nextTick, pingsTried, outbound, now >>
    /\ UNCHANGED << stream, msg, framesConsumed, observations >>

HbSendFail ==
    /\ hbPc = "send"
    /\ pending' = None
    /\ warned' = Some(framesConsumed)
    /\ hbPc' = "stopped"
    /\ UNCHANGED << nextTick, pingsTried, outbound, now >>
    /\ UNCHANGED mainVars

\* ------------------------------------------------------------ time

\* Time passes while the process is alive; the clock starts with ping_interval.
Advance ==
    /\ hbPc # "unspawned"
    /\ mainPc # "exited"
    /\ now + Quantum <= MaxTime
    /\ now' = now + Quantum
    /\ UNCHANGED << outbound >>
    /\ UNCHANGED mainVars
    /\ UNCHANGED hbVars

\* ------------------------------------------------------------ specifications

Next ==
    \/ ConnectOk
    \/ ConnectFail
    \/ SubscribeOk
    \/ SubscribeFail
    \/ SendSubscriptionOk
    \/ SendSubscriptionFail
    \/ SpawnHeartbeat
    \/ framesConsumed < MaxFrames /\ \E f \in SessionFrames : ReceiveFrame(f)
    \/ ReceiveNone
    \/ ReceiveErr
    \/ ProcessExit
    \/ HbTick
    \/ HbSendOk
    \/ HbSendFail
    \/ Advance

Spec == Init /\ [][Next]_vars

\* The dispatch loop alone, from the state in which main enters it: a first
\* frame out of every frame within the bounds, then a second one out of the
\* session's frames.
InitDispatch ==
    /\ mainPc = "receiving"
    /\ result = "none"
    /\ stream = "open"
    /\ msg = None
    /\ framesConsumed = 0
    /\ observations = << >>
    /\ outbound = << subscribe_request >>
    /\ hbPc = "tick"
    /\ nextTick = 0
    /\ pending = None
    /\ pingsTried = 0
    /\ warned = None
    /\ now = 0

NextDispatch ==
    \/ framesConsumed = 0 /\ \E f \in Frames : ReceiveFrame(f)
    \/ framesConsumed = 1 /\ \E f \in SessionFrames : ReceiveFrame(f)
    \/ ReceiveNone
    \/ ReceiveErr
    \/ ProcessExit

SpecDispatch == InitDispatch /\ [][NextDispatch]_vars

\* The session under the scheduling the runtime gives: a heartbeat task whose
\* tick is due is polled, a send that was called completes (with Ok or Err),
\* and once main has returned the runtime shuts down and the process exits.
\* No fairness is put on what the server delivers or on the passing of time.
Fairness ==
    /\ WF_vars(HbTick)
    /\ WF_vars(HbSendOk \/ HbSendFail)
    /\ WF_vars(ProcessExit)

\* The frames of a session whose progress is at stake, not its log: the frame
\* with all four groups.
LiveFrames ==
    { Frame(Some(<< "e2" >>), Some(<< "e1", "e2" >>), Some(<< "e1" >>),
            Some([id |-> PING_INTERVAL_SECS])) }

NextLive ==
    \/ ConnectOk
    \/ ConnectFail
    \/ SubscribeOk
    \/ SubscribeFail
    \/ SendSubscriptionOk
    \/ SendSubscriptionFail
    \/ SpawnHeartbeat
    \/ framesConsumed < MaxFrames /\ \E f \in LiveFrames : ReceiveFrame(f)
    \/ ReceiveNone
    \/ ReceiveErr
    \/ ProcessExit
    \/ HbTick
    \/ HbSendOk
    \/ HbSendFail
    \/ Advance

SpecLive == Init /\ [][NextLive]_vars /\ Fairness

\* ------------------------------------------------------------ helpers of the properties

\* The positions of the outbound sink that hold a ping, and the ids sent, in order
PingPositions == { i \in DOMAIN outbound : IsPing(outbound[i]) }
SentPings == SelectSeq(outbound, IsPing)
PingIds == [i \in 1..Len(SentPings) |-> SentPings[i].ping[1].id]

\* The heartbeat has been spawned (it may have stopped or been dropped since).
HeartbeatStarted == hbPc # "unspawned"

\* ------------------------------------------------------------ C1

\* C1: the SubscriptionRequest is on the outbound sink before receive() hands
\* any frame to the dispatcher: whenever a frame has been consumed, the first
\* message of the sink is the subscription request.
C1_SubscriptionBeforeFrames ==
    (framesConsumed > 0 \/ msg # None) =>
        /\ Len(outbound) >= 1
        /\ outbound[1] = subscribe_request

C1_Witness ==
    /\ framesConsumed > 0
    /\ observations # << >>
    /\ outbound[1] = subscribe_request

\* ------------------------------------------------------------ C2

\* C2: once the subscription send has succeeded, and after any heartbeat ticks
\* and received frames, exactly one message of the outbound sink carries
\* filters, and every other message is a ping; before that none carries filters.
C2_SubscriptionSentOnce ==
    LET filtered == { i \in DOMAIN outbound : CarriesFilters(outbound[i]) }
    IN  /\ Cardinality(filtered) =
             (IF mainPc = "spawn" \/ HeartbeatStarted THEN 1 ELSE 0)
        /\ \A i \in DOMAIN outbound :
             i \notin filtered => IsPing(outbound[i])

C2_Witness ==
    /\ Len(SentPings) >= 2
    /\ framesConsumed >= 1
    /\ Cardinality({ i \in DOMAIN outbound : CarriesFilters(outbound[i]) }) = 1

\* ------------------------------------------------------------ C3

\* C3: the outbound subscription request has exactly the four sections of
\* scenario A: one account filter with account set [addrX] and an empty owner
\* set, one transaction filter with vote = false and failed = false, the slots
\* toggle present, and commitment Confirmed (and no ping section).
C3_ScenarioA ==
    \A i \in DOMAIN outbound :
        (i = 1 \/ CarriesFilters(outbound[i])) =>
            LET r == outbound[i]
            IN  /\ Len(r.accounts) = 1
                /\ Len(r.accounts[1].filters) = 1
                /\ r.accounts[1].filters[1].account = << USDC >>
                /\ r.accounts[1].filters[1].owner = << >>
                /\ Len(r.transactions) = 1
                /\ Len(r.transactions[1].filters) = 1
                /\ r.transactions[1].filters[1].vote = << FALSE >>
                /\ r.transactions[1].filters[1].failed = << FALSE >>
                /\ Len(r.slots) = 1
                /\ r.commitment = CommitmentLevel.Confirmed
                /\ r.commitment # DefaultRequest.commitment
                /\ r.ping = << >>

C3_Witness ==
    /\ Len(outbound) >= 1
    /\ CarriesFilters(outbound[1])
    /\ mainPc = "receiving"

\* ------------------------------------------------------------ C4

\* C4: once a ping send has failed (the warn! line is logged), the heartbeat
\* never calls send again and no further ping reaches the sink, whatever ticks
\* come due later.
C4_StopsAtFirstFailure ==
    [][ warned # None =>
          /\ pingsTried' = pingsTried
          /\ outbound' = outbound
          /\ warned' = warned
          /\ hbPc' = "stopped" ]_vars

\* The heartbeat failed, and a later tick has come due without being taken.
C4_Witness ==
    /\ warned # None
    /\ hbPc = "stopped"
    /\ now >= nextTick
    /\ mainPc = "receiving"

\* ------------------------------------------------------------ C5

\* C5: a failed heartbeat send leaves the dispatcher alone: after it, main is
\* still in its receive loop, able to take every next frame, the end of the
\* stream or a receive error, unless receive() itself has returned None or an
\* error; the session outcome is never anything but success after None or the
\* receive failure after an error.
C5_HeartbeatFailureNotFatal ==
    warned # None =>
        /\ (mainPc = "receiving") <=> (stream = "open")
        /\ mainPc = "receiving" =>
              /\ result = "none"
              /\ \A f \in SessionFrames : ENABLED ReceiveFrame(f)
              /\ ENABLED ReceiveNone
              /\ ENABLED ReceiveErr
        /\ mainPc # "receiving" =>
              /\ mainPc \in { "returning", "exited" }
              /\ result = (IF stream = "ended" THEN "ok" ELSE "receive")

\* Scenario D: the 5th heartbeat send failed, and the dispatcher has dispatched
\* a frame since and is still receiving.
C5_Witness ==
    /\ warned # None
    /\ pingsTried = 5
    /\ Len(SentPings) = 4
    /\ framesConsumed > warned[1]
    /\ observations # << >>
    /\ mainPc = "receiving"

\* ------------------------------------------------------------ C6

\* No send has failed and the heartbeat has sent every tick that has come due.
HeartbeatCaughtUp ==
    /\ warned = None
    /\ hbPc = "tick"
    /\ nextTick > now

\* Every ping was built before the tick after it came due.
TicksOnTime == \A i \in DOMAIN PingIds : PingIds[i] < i * PING_INTERVAL_SECS

\* C6 as stated: once 3 periods have elapsed since the heartbeat was started,
\* with no send failure, exactly 3 pings have been sent, with strictly
\* increasing ids.
C6_ThreePingsAfterThreePeriods ==
    (now = 3 * PING_INTERVAL_SECS /\ HeartbeatCaughtUp) =>
        /\ Len(SentPings) = 3
        /\ \A i, j \in DOMAIN PingIds : i < j => PingIds[i] < PingIds[j]

\* C6, amended: once 3 periods (and not yet 4) have elapsed since the heartbeat
\* was started, with no send failure and no tick overdue, exactly 4 pings have
\* been sent, the first one at the start; their ids never decrease, and
\* strictly increase when each tick was handled before the next came due.
C6_FourPingsAfterThreePeriods ==
    ( /\ now >= 3 * PING_INTERVAL_SECS
      /\ now < 4 * PING_INTERVAL_SECS
      /\ HeartbeatCaughtUp ) =>
        /\ Len(SentPings) = 4
        /\ pingsTried = 4
        /\ \A i, j \in DOMAIN PingIds : i < j => PingIds[i] <= PingIds[j]
        /\ TicksOnTime =>
             \A i, j \in DOMAIN PingIds : i < j => PingIds[i] < PingIds[j]

C6_Witness ==
    /\ now = 3 * PING_INTERVAL_SECS
    /\ HeartbeatCaughtUp
    /\ TicksOnTime
    /\ Len(SentPings) = 4

\* ------------------------------------------------------------ C7

\* C7 as stated: once the dispatcher has observed the end of the stream after
\* some frames, no further send is attempted and no ping reaches the outbound
\* sink.
C7_NoSendAfterStreamEnd ==
    [][ (stream = "ended" /\ framesConsumed >= 1) =>
          /\ pingsTried' = pingsTried
          /\ outbound' = outbound ]_vars

\* C7, amended: when receive() returns None the loop exits and the process
\* terminates with the success status; once the process has exited no send is
\* attempted and no ping reaches the sink (between the end of the stream and
\* the exit the heartbeat task may still send).
C7_CleanExitThenNoSend ==
    [][ /\ stream' = "ended" =>
              /\ mainPc' \in { "returning", "exited" }
              /\ result' = "ok"
        /\ mainPc' = "exited" =>
              /\ hbPc' \notin { "tick", "send" }
              /\ pending' = None
        /\ mainPc = "exited" =>
              /\ pingsTried' = pingsTried
              /\ outbound' = outbound ]_vars

\* The stream ended after some frames, the process has exited with success, and
\* a heartbeat tick that was due is never sent.
C7_Witness ==
    /\ stream = "ended"
    /\ framesConsumed >= 1
    /\ mainPc = "exited"
    /\ result = "ok"
    /\ hbPc = "dropped"
    /\ now >= nextTick

\* ------------------------------------------------------------ C8

\* C8: when receive() returns an error the loop is left at once: no further
\* frame is consumed or dispatched, and the session ends with the failure
\* outcome of the receive phase, never with success.
C8_ReceiveErrorFatal ==
    [][ /\ stream' = "failed" =>
              /\ mainPc' \in { "returning", "exited" }
              /\ result' = "receive"
        /\ stream = "failed" =>
              /\ framesConsumed' = framesConsumed
              /\ observations' = observations
              /\ msg' = msg
              /\ stream' = "failed" ]_vars

C8_Witness ==
    /\ stream = "failed"
    /\ framesConsumed >= 1
    /\ mainPc = "exited"
    /\ result = "receive"

\* ------------------------------------------------------------ C9

\* The observations of frame k of one kind, in the order they were emitted,
\* and the values they report
ObsOf(k, kind) == SelectSeq(observations, LAMBDA o : o.frame = k /\ o.kind = kind)
Vals(obs) == [i \in 1..Len(obs) |-> obs[i].val]
EntriesOf(group) == IF group = None THEN << >> ELSE group[1]

\* C9: for the frame just consumed, the account observations are exactly the
\* N entries of its account-update group, one each and in the frame's order;
\* likewise for the transaction-update and the slot-update group.
C9_OnePerEntryInOrder ==
    msg # None =>
        /\ Vals(ObsOf(framesConsumed, "account")) = EntriesOf(msg[1].accounts)
        /\ Vals(ObsOf(framesConsumed, "transaction")) = EntriesOf(msg[1].transactions)
        /\ Vals(ObsOf(framesConsumed, "slot")) = EntriesOf(msg[1].slots)

\* A frame whose groups hold several entries out of sorted order was dispatched.
C9_Witness ==
    /\ msg # None
    /\ EntriesOf(msg[1].accounts) = << "e2", "e1" >>
    /\ EntriesOf(msg[1].slots) = << "e1", "e2" >>
    /\ Len(EntriesOf(msg[1].transactions)) = 1
    /\ Len(observations) = 5

\* ------------------------------------------------------------ C10

\* The set of values reported for frame k under one kind
Reported(k, kind) ==
    { observations[i].val :
        i \in { j \in DOMAIN observations :
                   observations[j].frame = k /\ observations[j].kind = kind } }

\* C10: whatever subset of the four groups a frame carries, the observations of
\* that frame cover every present group (each of its entries is reported under
\* the group's kind; a pong's id is reported) and no absent group (nothing is
\* reported under its kind).
C10_EveryPresentGroup ==
    msg # None =>
        LET f == msg[1]
            k == framesConsumed
            Covers(kind, group) ==
                IF group = None THEN Reported(k, kind) = { }
                ELSE \A i \in DOMAIN group[1] : group[1][i] \in Reported(k, kind)
        IN  /\ Covers("account", f.accounts)
            /\ Covers("transaction", f.transactions)
            /\ Covers("slot", f.slots)
            /\ IF f.pong = None THEN Reported(k, "pong") = { }
               ELSE Reported(k, "pong") = { f.pong[1].id }

\* A frame with all four groups populated was dispatched.
C10_Witness ==
    /\ msg # None
    /\ msg[1].accounts # None /\ Len(msg[1].accounts[1]) >= 1
    /\ msg[1].transactions # None /\ Len(msg[1].transactions[1]) >= 1
    /\ msg[1].slots # None /\ Len(msg[1].slots[1]) >= 1
    /\ msg[1].pong # None
    /\ { o.kind : o \in { observations[i] : i \in DOMAIN observations } }
         = { "account", "transaction", "slot", "pong" }

\* ------------------------------------------------------------ C11

\* The observations of frame k, in the order they were emitted
FrameObs(k) == SelectSeq(observations, LAMBDA o : o.frame = k)

NoGroups(f) ==
    f.accounts = None /\ f.transactions = None /\ f.slots = None /\ f.pong = None

\* C11: a frame with all four groups absent yields no observation and does not
\* end the loop: unless receive() has since returned None or an error, main is
\* back in the receive loop with no outcome decided, and takes any next frame.
C11_EmptyFrameKeepsLooping ==
    (msg # None /\ NoGroups(msg[1])) =>
        /\ FrameObs(framesConsumed) = << >>
        /\ stream = "open" =>
              /\ mainPc = "receiving"
              /\ result = "none"
              /\ \A f \in SessionFrames : ENABLED ReceiveFrame(f)

\* The first frame had no group and the one after it was dispatched as usual;
\* the current frame has no group either and the loop goes on.
C11_Witness ==
    /\ framesConsumed = 2
    /\ FrameObs(1) = << >>
    /\ Len(FrameObs(2)) >= 3
    /\ mainPc = "receiving"

\* ------------------------------------------------------------ C12

\* The ids of every ping built so far: those on the sink, then the one being sent
BuiltIds ==
    IF pending = None THEN PingIds
    ELSE Append(PingIds, pending[1].ping[1].id)

\* C12: each ping's id is the clock reading of the moment it is built and
\* handed to send; the clock moving forward, the ids of a session never
\* decrease, and a ping built at least one second after the previous ones has
\* a strictly greater id than all of them.
C12_PingIdIsSendTime ==
    [][ pingsTried' = pingsTried + 1 =>
          /\ pending' # None
          /\ pending'[1].ping[1].id = now
          /\ \A i \in DOMAIN BuiltIds : BuiltIds[i] <= now
          /\ \A i, j \in DOMAIN BuiltIds' : i < j => BuiltIds'[i] <= BuiltIds'[j]
          /\ \A i \in DOMAIN BuiltIds :
                now >= BuiltIds[i] + 1 => pending'[1].ping[1].id > BuiltIds[i] ]_vars

\* Two ticks handled late within the same second carry the same id; the next
\* one, a period later, a greater one.
C12_Witness ==
    /\ Len(PingIds) >= 3
    /\ PingIds[1] = PingIds[2]
    /\ PingIds[2] < PingIds[3]
    /\ PingIds[3] = now

\* ------------------------------------------------------------ C13

\* C13: a startup failure ends the session before the next phase: after a
\* failed connect or a failed stream opening nothing is ever sent; after a
\* failed subscription send the session ends with that failure, the heartbeat
\* is never spawned (no ping is tried or sent) and no frame is consumed.
C13_StartupFailureAborts ==
    /\ result \in { "connect", "subscribe" } =>
          /\ outbound = << >>
          /\ mainPc \in { "returning", "exited" }
          /\ hbPc = "unspawned"
          /\ framesConsumed = 0
    /\ result = "send" =>
          /\ mainPc \in { "returning", "exited" }
          /\ hbPc = "unspawned"
          /\ pingsTried = 0
          /\ SentPings = << >>
          /\ framesConsumed = 0 /\ msg = None /\ observations = << >>
          /\ ~ ENABLED HbTick
          /\ \A f \in SessionFrames : ~ ENABLED ReceiveFrame(f)

C13_Witness ==
    /\ result = "send"
    /\ mainPc = "exited"
    /\ outbound = << >>

\* ------------------------------------------------------------ C14

\* C14: the heartbeat exists only once the subscription send has succeeded:
\* whenever the heartbeat has been spawned, has tried a send, or a ping is on
\* the sink, the first message of the sink is the subscription request, and
\* every ping comes after it.
C14_SubscriptionFirstOnSink ==
    (HeartbeatStarted \/ pingsTried > 0 \/ pending # None \/ PingPositions # { }) =>
        /\ Len(outbound) >= 1
        /\ outbound[1] = subscribe_request
        /\ ~ IsPing(outbound[1])
        /\ \A i \in PingPositions : i > 1

\* The first ping went out right behind the subscription, before any frame.
C14_Witness ==
    /\ Len(outbound) = 2
    /\ outbound[1] = subscribe_request
    /\ IsPing(outbound[2])
    /\ framesConsumed = 0
    /\ now = 0

\* ------------------------------------------------------------ C15

\* A tick of the heartbeat has come due and is not yet taken.
TickDue == hbPc = "tick" /\ now >= nextTick

\* C15: neither unit blocks the other.  While main is suspended in message()
\* a due tick can be taken and a called send can complete, and while a tick is
\* due or a send is in flight main can take any frame; under fair scheduling
\* every due tick is taken and its send completes (as a ping on the sink, or
\* as the one failure that stops the heartbeat) unless the process exits
\* first, so that pings keep being sent for as long as ticks come due, the
\* stream stays open and no send fails.
C15_UnitsDoNotBlock ==
    /\ [](mainPc = "receiving" =>
            /\ TickDue => ENABLED HbTick
            /\ hbPc = "send" => ENABLED HbSendOk
            /\ \A f \in SessionFrames : ENABLED ReceiveFrame(f))
    /\ (TickDue ~> hbPc \in { "send", "dropped" })
    /\ (hbPc = "send" ~> hbPc \in { "tick", "stopped", "dropped" })

\* Main has stayed in message() without a frame for four periods and the
\* heartbeat has sent a ping on every tick.
C15_Witness ==
    /\ mainPc = "receiving"
    /\ framesConsumed = 0
    /\ now = MaxTime
    /\ Len(SentPings) = 5
    /\ TicksOnTime

\* ------------------------------------------------------------ C16

StartupFailed == result \in { "connect", "subscribe", "send" }

\* C16: the session ends exactly when the stream ends or a fatal error occurs:
\* main returns, and the process exits, only after a startup call failed or
\* message() returned None or an error (never while the stream is open in the
\* receive loop); and under fair scheduling, once message() has returned None
\* or an error, or a startup call has failed, the process does exit.
C16_ExitsExactlyOnEndOrError ==
    /\ [](mainPc \in { "returning", "exited" } =>
            /\ stream # "open" \/ StartupFailed
            /\ result # "none"
            /\ HeartbeatStarted => stream # "open")
    /\ [](stream = "open" /\ ~ StartupFailed => mainPc \notin { "returning", "exited" })
    /\ ((stream # "open" \/ StartupFailed) ~> mainPc = "exited")

C16_Witness ==
    /\ mainPc = "exited"
    /\ stream = "failed"
    /\ framesConsumed = MaxFrames
    /\ Len(SentPings) >= 1

\* ------------------------------------------------------------ C17

\* C17: handling a frame, a pong included, sends nothing on the outbound sink
\* (the subscription and the pings on it stay as they are) and changes nothing
\* of the heartbeat; a pong's id is reported as it came, whether or not any
\* ping with that id was ever sent.
C17_PureDemultiplexer ==
    [][ framesConsumed' # framesConsumed =>
          /\ outbound' = outbound
          /\ UNCHANGED hbVars
          /\ now' = now
          /\ Len(observations') >= Len(observations)
          /\ SubSeq(observations', 1, Len(observations)) = observations
          /\ msg'[1].pong # None =>
                /\ Len(observations') > Len(observations)
                /\ observations'[Len(observations')] =
                      [frame |-> framesConsumed', kind |-> "pong", val |-> msg'[1].pong[1].id]
                /\ Len(SelectSeq(observations', LAMBDA o : o.kind = "pong"))
                      = Len(SelectSeq(observations, LAMBDA o : o.kind = "pong")) + 1 ]_vars

\* A pong was reported whose id no sent ping carries, while a ping was in flight.
C17_Witness ==
    /\ msg # None
    /\ msg[1].pong # None
    /\ \A i \in DOMAIN PingIds : PingIds[i] # msg[1].pong[1].id
    /\ Len(PingIds) >= 1
    /\ hbPc = "send"
    /\ observations[Len(observations)].kind = "pong"

\* ------------------------------------------------------------ C18

\* C18: every ping the heartbeat builds, in flight or on the sink, has only the
\* ping section: its accounts, transactions and slots sections are absent.
C18_PingHasOnlyPingSection ==
    LET OnlyPing(r) ==
            /\ r.ping # None
            /\ r.accounts = << >>
            /\ r.transactions = << >>
            /\ r.slots = << >>
    IN  /\ pending # None => OnlyPing(pending[1])
        /\ \A i \in DOMAIN outbound : i > 1 => OnlyPing(outbound[i])
        /\ Len(outbound) >= 1 => outbound[1] = subscribe_request

C18_Witness ==
    /\ Len(SentPings) >= 2
    /\ pending # None
    /\ outbound[1] = subscribe_request

\* ------------------------------------------------------------ C19

GroupRank(kind) ==
    CASE kind = "account" -> 1
      [] kind = "transaction" -> 2
      [] kind = "slot" -> 3
      [] kind = "pong" -> 4

\* C19: in the log of a session the observations of frame k all come before
\* those of frame k+1; within one frame they come in the group order accounts,
\* transactions, slots, pong; and a frame has at most one pong observation.
C19_FrameAndGroupOrder ==
    /\ \A i, j \in DOMAIN observations :
          i < j =>
             /\ observations[i].frame <= observations[j].frame
             /\ observations[i].frame = observations[j].frame =>
                   GroupRank(observations[i].kind) <= GroupRank(observations[j].kind)
    /\ \A k \in 1..framesConsumed :
          Len(SelectSeq(FrameObs(k), LAMBDA o : o.kind = "pong")) <= 1
    /\ \A i \in DOMAIN observations : observations[i].frame \in 1..framesConsumed

\* Two frames carrying several groups each have been logged.
C19_Witness ==
    /\ framesConsumed = 2
    /\ Len(FrameObs(1)) >= 3
    /\ Len(FrameObs(2)) >= 5
    /\ { o.kind : o \in { FrameObs(2)[i] : i \in DOMAIN FrameObs(2) } }
          = { "account", "transaction", "slot", "pong" }

\* ------------------------------------------------------------ C20

\* The dispatch loop has ended: message() returned None or an error.
LoopEnded == stream # "open"

\* C20 as stated: from the moment the dispatch loop has ended, for either
\* reason, the heartbeat sends no further ping.
C20_NoPingOnceLoopEnded ==
    [][ LoopEnded => SentPings' = SentPings ]_vars

\* C20, amended: the heartbeat's lifetime is bounded by the process's: once
\* the process has exited after the loop ended, for either reason, the
\* heartbeat task is gone (stopped earlier, or dropped by the runtime with any
\* send in flight abandoned), no step of it can happen, and the pings sent are
\* fixed.  Between the loop ending and the exit it may still send.
C20_NoPingOnceExited ==
    (LoopEnded /\ mainPc = "exited") =>
        /\ hbPc \in { "stopped", "dropped" }
        /\ pending = None
        /\ ~ ENABLED HbTick
        /\ ~ ENABLED HbSendOk
        /\ ~ ENABLED HbSendFail
        /\ ~ ENABLED Advance

\* After a receive error the process has exited with a tick due and never taken.
C20_Witness ==
    /\ stream = "failed"
    /\ mainPc = "exited"
    /\ hbPc = "dropped"
    /\ Len(SentPings) >= 1
    /\ now >= nextTick

====
